---------------------------- MODULE Spec2Model ----------------------------
(***************************************************************************)
(* Model of the variable-resolution and template-rendering pipeline of     *)
(* draft: pkg/config/draftconfig.go (DraftConfig, BuilderVar and the       *)
(* default-application algorithm) and pkg/handlers/template.go             *)
(* (Template.Generate and the render walk).                                *)
(*                                                                         *)
(* Strings of the program are TLA+ strings.  The empty Go string is "".    *)
(* Go errors are records [kind, name]; NoErr stands for a nil error.       *)
(***************************************************************************)
EXTENDS Integers, Sequences, FiniteSets, TLC

VARIABLES
    d,        \* the DraftConfig: [Versions, Variables, Validators, Transformers,
              \* FileNameOverrideMap]
    ret,      \* what the last call on the DraftConfig returned
    d2,       \* a second DraftConfig: the newConfig DeepCopy returned, or a
              \* config declaring the Variables of d in another order
    ret2,     \* what the last call on the second DraftConfig returned
    shared,   \* the parts of d2 that are the same Go objects as those of d
    tmpl,     \* the Template's own fields (Config is d, unless tmpl.configNil)
    tree,     \* templateFiles under tmpl.src, in fs.WalkDir order
    pc,       \* position of Template.Generate
    walk,     \* number of generateTemplate calls Generate has started
    idx,      \* number of entries of the current walk already visited
    writes,   \* every templateWriter.WriteFile call so far, in call order
    genErr    \* the error Generate returned

vars == <<d, ret, d2, ret2, shared, tmpl, tree, pc, walk, idx, writes, genErr>>

-----------------------------------------------------------------------------
(* Errors *)

NoErr == [kind |-> "nil", name |-> ""]

Err(kind, name) == [kind |-> kind, name |-> name]

-----------------------------------------------------------------------------
(* Semantic versions (github.com/blang/semver/v4): a version string parses *)
(* to <<major, minor, patch>> or fails; a range string parses to a list of *)
(* comparators that must all hold, or fails.  The empty string is neither  *)
(* a version nor a range.                                                  *)

VersionStrings == {"", "not-a-version", "1.5.0", "2.5.0", "3.0.0"}

RangeStrings == {"", ">=1.0.0", ">=2.0.0", ">=1.0.0 <3.0.0"}

semverParse(s) ==
    CASE s = "1.5.0" -> [ok |-> TRUE, v |-> <<1, 5, 0>>]
      [] s = "2.5.0" -> [ok |-> TRUE, v |-> <<2, 5, 0>>]
      [] s = "3.0.0" -> [ok |-> TRUE, v |-> <<3, 0, 0>>]
      [] OTHER       -> [ok |-> FALSE, v |-> <<0, 0, 0>>]

semverParseRange(s) ==
    CASE s = ">=1.0.0" -> [ok |-> TRUE, cmps |-> << <<">=", <<1, 0, 0>> >> >>]
      [] s = ">=2.0.0" -> [ok |-> TRUE, cmps |-> << <<">=", <<2, 0, 0>> >> >>]
      [] s = ">=1.0.0 <3.0.0" ->
            [ok |-> TRUE, cmps |-> << <<">=", <<1, 0, 0>> >>, <<"<", <<3, 0, 0>> >> >>]
      [] OTHER -> [ok |-> FALSE, cmps |-> << >>]

\* Version.Compare: -1, 0 or 1, major first, then minor, then patch.
semverCompare(a, b) ==
    IF a[1] # b[1] THEN (IF a[1] < b[1] THEN -1 ELSE 1)
    ELSE IF a[2] # b[2] THEN (IF a[2] < b[2] THEN -1 ELSE 1)
    ELSE IF a[3] # b[3] THEN (IF a[3] < b[3] THEN -1 ELSE 1)
    ELSE 0

\* A parsed Range applied to a version: every comparator holds.
semverInRange(cmps, v) ==
    \A i \in 1..Len(cmps) :
        LET c == semverCompare(v, cmps[i][2]) IN
        CASE cmps[i][1] = ">=" -> c >= 0
          [] cmps[i][1] = "<"  -> c < 0
          [] OTHER             -> FALSE

-----------------------------------------------------------------------------
(* DraftConfig accessors *)

\* GetVariable: the index of the first Variable named name, 0 when none.
GetVariable(variables, name) ==
    IF \E i \in 1..Len(variables) : variables[i].Name = name
    THEN CHOOSE i \in 1..Len(variables) :
            /\ variables[i].Name = name
            /\ \A j \in 1..(i - 1) : variables[j].Name # name
    ELSE 0

NotFoundErr(name) == Err("NotFound", name)

\* GetVariableMap: name -> raw value; a later Variable of the same name wins.
GetVariableMap(variables) ==
    [n \in {variables[i].Name : i \in 1..Len(variables)} |->
        LET last == CHOOSE i \in 1..Len(variables) :
                        /\ variables[i].Name = n
                        /\ \A j \in (i + 1)..Len(variables) : variables[j].Name # n
        IN variables[last].Value]

-----------------------------------------------------------------------------
(* Validators and transformers.  A VariableValidator is a func(string)     *)
(* error and a VariableTransformer a func(string) (string, error); the     *)
(* model names the functions a caller can register and the built-in ones.  *)

ValidatorFuncs == {"acceptAll", "numeric"}

TransformerFuncs == {"identity", "quote", "strict"}

\* Calling validator f on s: TRUE when it returns a non-nil error.
validatorRejects(f, s) ==
    CASE f = "numeric" -> s # "12"
      [] OTHER         -> FALSE

\* Calling transformer g on s.
transformerApply(g, s) ==
    CASE g = "quote" ->
            [val |-> CASE s = "12" -> "'12'" [] s = "abc" -> "'abc'" [] OTHER -> "'?'",
             failed |-> FALSE]
      [] g = "strict" ->
            IF s = "abc" THEN [val |-> "", failed |-> TRUE]
                         ELSE [val |-> s, failed |-> FALSE]
      [] OTHER -> [val |-> s, failed |-> FALSE]

\* validators.GetValidator: the built-in table; an unknown kind gets the no-op.
BuiltinValidator(kind) == IF kind = "int" THEN "numeric" ELSE "acceptAll"

\* transformers.GetTransformer: the built-in table; an unknown kind gets the identity.
BuiltinTransformer(kind) == "identity"

\* GetVariableValidator preferring a built-in validator of the kind's own.
GetVariableValidator_BuiltinFirst(cfg, kind) ==
    IF BuiltinValidator(kind) # BuiltinValidator("")
    THEN BuiltinValidator(kind)
    ELSE IF kind \in DOMAIN cfg.Validators THEN cfg.Validators[kind]
    ELSE BuiltinValidator(kind)

\* GetVariableValidator: the caller's override for the kind, else the built-in.
GetVariableValidator(cfg, kind) ==
    IF kind \in DOMAIN cfg.Validators THEN cfg.Validators[kind]
    ELSE BuiltinValidator(kind)

\* GetVariableTransformer: the caller's override for the kind, else the built-in.
GetVariableTransformer(cfg, kind) ==
    IF kind \in DOMAIN cfg.Transformers THEN cfg.Transformers[kind]
    ELSE BuiltinTransformer(kind)

\* GetVariableValue handing out the stored value without validating it.
GetVariableValue_NoValidation(cfg, name) ==
    LET i == GetVariable(cfg.Variables, name) IN
    IF i = 0
    THEN [val |-> "", err |-> NotFoundErr(name), consulted |-> << >>]
    ELSE LET variable == cfg.Variables[i] IN
         IF variable.Value = ""
         THEN [val |-> "", err |-> Err("Empty", name), consulted |-> << >>]
         ELSE LET response == transformerApply(GetVariableTransformer(cfg, variable.Kind),
                                               variable.Value) IN
              IF response.failed
              THEN [val |-> "", err |-> Err("TransformationFailed", name),
                    consulted |-> <<"transformer">>]
              ELSE [val |-> response.val, err |-> NoErr,
                    consulted |-> <<"transformer">>]

\* GetVariableValue calling the transformer before the validator.
GetVariableValue_TransformFirst(cfg, name) ==
    LET i == GetVariable(cfg.Variables, name) IN
    IF i = 0
    THEN [val |-> "", err |-> NotFoundErr(name), consulted |-> << >>]
    ELSE LET variable == cfg.Variables[i]
             response == transformerApply(GetVariableTransformer(cfg, variable.Kind),
                                          variable.Value)
         IN
         IF variable.Value = ""
         THEN [val |-> "", err |-> Err("Empty", name), consulted |-> << >>]
         ELSE IF response.failed
         THEN [val |-> "", err |-> Err("TransformationFailed", name),
               consulted |-> <<"transformer">>]
         ELSE IF validatorRejects(GetVariableValidator(cfg, variable.Kind), variable.Value)
         THEN [val |-> "", err |-> Err("ValidationFailed", name),
               consulted |-> <<"transformer", "validator">>]
         ELSE [val |-> response.val, err |-> NoErr,
               consulted |-> <<"transformer", "validator">>]

\* GetVariableValue on the first Variable named name.  consulted lists the
\* registry functions the call invoked, in order.
GetVariableValue(cfg, name) ==
    LET i == GetVariable(cfg.Variables, name) IN
    IF i = 0
    THEN [val |-> "", err |-> NotFoundErr(name), consulted |-> << >>]
    ELSE LET variable == cfg.Variables[i] IN
         IF variable.Value = ""
         THEN [val |-> "", err |-> Err("Empty", name), consulted |-> << >>]
         ELSE IF validatorRejects(GetVariableValidator(cfg, variable.Kind), variable.Value)
         THEN [val |-> "", err |-> Err("ValidationFailed", name),
               consulted |-> <<"validator">>]
         ELSE LET response == transformerApply(GetVariableTransformer(cfg, variable.Kind),
                                               variable.Value) IN
              IF response.failed
              THEN [val |-> "", err |-> Err("TransformationFailed", name),
                    consulted |-> <<"validator", "transformer">>]
              ELSE [val |-> response.val, err |-> NoErr,
                    consulted |-> <<"validator", "transformer">>]

\* The BuilderVar SetVariable appends for an unknown name: only Name and Value set.
NewBuilderVar(name, value) ==
    [Name |-> name, Value |-> value, DefRef |-> "", DefValue |-> "",
     Versions |-> "", Kind |-> "", ConditionalRef |-> "",
     ExampleValues |-> << >>]

\* SetVariable appending even when a Variable of that name is there.
SetVariable_AlwaysAppend(variables, name, value) ==
    Append(variables, NewBuilderVar(name, value))

\* SetVariable: update the first Variable of that name, else append one.
SetVariable(variables, name, value) ==
    LET i == GetVariable(variables, name) IN
    IF i = 0 THEN Append(variables, NewBuilderVar(name, value))
    ELSE [variables EXCEPT ![i].Value = value]

\* SetVariableValidator / SetVariableTransformer: m[kind] = f.
SetOverride(m, kind, f) ==
    [k \in DOMAIN m \cup {kind} |-> IF k = kind THEN f ELSE m[k]]

-----------------------------------------------------------------------------
(* Default application *)

\* The recursion of recurseReferenceVars has no bound of its own.  A frame
\* is decided by the Variable it looks at, and the Variables do not change
\* during the recursion: once more frames than StackLimit are open, a
\* frame has repeated and the recursion never returns.  The Go runtime then
\* ends the process with a fatal stack overflow.
StackLimit(variables) == Len(variables) + 1

StackOverflow == Err("StackOverflow", "")

RECURSIVE recurseReferenceVars_NoCycleCheck(_, _, _, _, _)
\* recurseReferenceVars without the comparison with variableCheck.
recurseReferenceVars_NoCycleCheck(variables, referenceVar, variableCheck, isFirst, depth) ==
    IF depth > StackLimit(variables)
    THEN [val |-> "", err |-> StackOverflow]
    ELSE IF variables[referenceVar].Value # ""
    THEN [val |-> variables[referenceVar].Value, err |-> NoErr]
    ELSE IF variables[referenceVar].DefRef # ""
    THEN LET next == GetVariable(variables, variables[referenceVar].DefRef) IN
         IF next = 0
         THEN [val |-> "", err |-> NotFoundErr(variables[referenceVar].DefRef)]
         ELSE recurseReferenceVars_NoCycleCheck(variables, next, variableCheck, FALSE,
                                                depth + 1)
    ELSE [val |-> variables[referenceVar].DefValue, err |-> NoErr]

RECURSIVE recurseReferenceVars_NoInlineAtEnd(_, _, _, _, _)
\* recurseReferenceVars returning nothing where the chain ends unset.
recurseReferenceVars_NoInlineAtEnd(variables, referenceVar, variableCheck, isFirst, depth) ==
    IF depth > StackLimit(variables)
    THEN [val |-> "", err |-> StackOverflow]
    ELSE IF ~isFirst /\ variables[referenceVar].Name = variables[variableCheck].Name
    THEN [val |-> "", err |-> Err("CyclicalReference", "")]
    ELSE IF variables[referenceVar].Value # ""
    THEN [val |-> variables[referenceVar].Value, err |-> NoErr]
    ELSE IF variables[referenceVar].DefRef # ""
    THEN LET next == GetVariable(variables, variables[referenceVar].DefRef) IN
         IF next = 0
         THEN [val |-> "", err |-> NotFoundErr(variables[referenceVar].DefRef)]
         ELSE recurseReferenceVars_NoInlineAtEnd(variables, next, variableCheck,
                                                 FALSE, depth + 1)
    ELSE [val |-> "", err |-> NoErr]

RECURSIVE recurseReferenceVars_InlineFirst(_, _, _, _, _)
\* recurseReferenceVars taking a Variable's inline default before its reference.
recurseReferenceVars_InlineFirst(variables, referenceVar, variableCheck, isFirst, depth) ==
    IF depth > StackLimit(variables)
    THEN [val |-> "", err |-> StackOverflow]
    ELSE IF ~isFirst /\ variables[referenceVar].Name = variables[variableCheck].Name
    THEN [val |-> "", err |-> Err("CyclicalReference", "")]
    ELSE IF variables[referenceVar].Value # ""
    THEN [val |-> variables[referenceVar].Value, err |-> NoErr]
    ELSE IF variables[referenceVar].DefValue # ""
    THEN [val |-> variables[referenceVar].DefValue, err |-> NoErr]
    ELSE IF variables[referenceVar].DefRef # ""
    THEN LET next == GetVariable(variables, variables[referenceVar].DefRef) IN
         IF next = 0
         THEN [val |-> "", err |-> NotFoundErr(variables[referenceVar].DefRef)]
         ELSE recurseReferenceVars_InlineFirst(variables, next, variableCheck, FALSE,
                                               depth + 1)
    ELSE [val |-> "", err |-> NoErr]

RECURSIVE recurseReferenceVars(_, _, _, _, _)
\* referenceVar and variableCheck are indices into variables; depth counts
\* the open frames.  Returns [val, err].
recurseReferenceVars(variables, referenceVar, variableCheck, isFirst, depth) ==
    IF depth > StackLimit(variables)
    THEN [val |-> "", err |-> StackOverflow]
    ELSE IF ~isFirst /\ variables[referenceVar].Name = variables[variableCheck].Name
    THEN [val |-> "", err |-> Err("CyclicalReference", "")]
    ELSE IF variables[referenceVar].Value # ""
    THEN [val |-> variables[referenceVar].Value, err |-> NoErr]
    ELSE IF variables[referenceVar].DefRef # ""
    THEN LET next == GetVariable(variables, variables[referenceVar].DefRef) IN
         IF next = 0
         THEN [val |-> "", err |-> NotFoundErr(variables[referenceVar].DefRef)]
         ELSE recurseReferenceVars(variables, next, variableCheck, FALSE, depth + 1)
    ELSE [val |-> variables[referenceVar].DefValue, err |-> NoErr]

\* applyDefault comparing the hops with the Variable being resolved.
applyDefault_CheckAgainstResolved(variables, i) ==
    LET variable == variables[i]
        referenceVar == GetVariable(variables, variable.DefRef)
        chased == IF variable.DefRef = "" THEN [val |-> "", err |-> NoErr]
                  ELSE IF referenceVar = 0
                  THEN [val |-> "", err |-> NotFoundErr(variable.DefRef)]
                  ELSE recurseReferenceVars(variables, referenceVar, i, TRUE, 1)
    IN
    IF chased.err # NoErr THEN [variables |-> variables, err |-> chased.err]
    ELSE IF chased.val # ""
    THEN [variables |-> [variables EXCEPT ![i].Value = chased.val], err |-> NoErr]
    ELSE IF variable.DefValue # ""
    THEN [variables |-> [variables EXCEPT ![i].Value = variable.DefValue], err |-> NoErr]
    ELSE [variables |-> variables, err |-> Err("NoDefaultAvailable", variable.Name)]

\* The body of the loops going on when no default is available.
applyDefault_EmptyAccepted(variables, i) ==
    LET variable == variables[i]
        referenceVar == GetVariable(variables, variable.DefRef)
        chased == IF variable.DefRef = "" THEN [val |-> "", err |-> NoErr]
                  ELSE IF referenceVar = 0
                  THEN [val |-> "", err |-> NotFoundErr(variable.DefRef)]
                  ELSE recurseReferenceVars(variables, referenceVar, referenceVar, TRUE, 1)
    IN
    IF chased.err # NoErr THEN [variables |-> variables, err |-> chased.err]
    ELSE IF chased.val # ""
    THEN [variables |-> [variables EXCEPT ![i].Value = chased.val], err |-> NoErr]
    ELSE [variables |-> [variables EXCEPT ![i].Value = variable.DefValue], err |-> NoErr]

\* The body both loops run for an unset Variable i (lines 178-198 and, word
\* for word, 233-254): the reference chain first, then the inline default.
\* Returns [variables, err].
applyDefault(variables, i) ==
    LET variable == variables[i]
        referenceVar == GetVariable(variables, variable.DefRef)
        chased == IF variable.DefRef = "" THEN [val |-> "", err |-> NoErr]
                  ELSE IF referenceVar = 0
                  THEN [val |-> "", err |-> NotFoundErr(variable.DefRef)]
                  ELSE recurseReferenceVars(variables, referenceVar, referenceVar, TRUE, 1)
    IN
    IF chased.err # NoErr THEN [variables |-> variables, err |-> chased.err]
    ELSE IF chased.val # ""
    THEN [variables |-> [variables EXCEPT ![i].Value = chased.val], err |-> NoErr]
    ELSE IF variable.DefValue # ""
    THEN [variables |-> [variables EXCEPT ![i].Value = variable.DefValue], err |-> NoErr]
    ELSE [variables |-> variables, err |-> Err("NoDefaultAvailable", variable.Name)]

RECURSIVE applyDefaultVariablesFrom_NoUnsetGuard(_, _)
\* The loop of ApplyDefaultVariables without the test for an empty value.
applyDefaultVariablesFrom_NoUnsetGuard(variables, i) ==
    IF i > Len(variables) THEN [variables |-> variables, err |-> NoErr, at |-> 0]
    ELSE LET r == applyDefault(variables, i) IN
         IF r.err # NoErr THEN [variables |-> r.variables, err |-> r.err, at |-> i]
         ELSE applyDefaultVariablesFrom_NoUnsetGuard(r.variables, i + 1)

RECURSIVE applyDefaultVariablesFrom(_, _)
\* The loop of ApplyDefaultVariables from index i on.  Returns
\* [variables, err, at]: at is the index the loop returned an error at, 0
\* when it ran to the end.
applyDefaultVariablesFrom(variables, i) ==
    IF i > Len(variables) THEN [variables |-> variables, err |-> NoErr, at |-> 0]
    ELSE IF variables[i].Value # "" THEN applyDefaultVariablesFrom(variables, i + 1)
    ELSE LET r == applyDefault(variables, i) IN
         IF r.err # NoErr THEN [variables |-> r.variables, err |-> r.err, at |-> i]
         ELSE applyDefaultVariablesFrom(r.variables, i + 1)

ApplyDefaultVariables(variables) == applyDefaultVariablesFrom(variables, 1)

RECURSIVE applyDefaultVariablesForVersionFrom_NoSkip(_, _, _)
\* The loop of ApplyDefaultVariablesForVersion without the skip of a
\* Variable whose range the version does not satisfy.
applyDefaultVariablesForVersionFrom_NoSkip(variables, i, v) ==
    IF i > Len(variables) THEN [variables |-> variables, err |-> NoErr, at |-> 0]
    ELSE IF variables[i].Value # ""
    THEN applyDefaultVariablesForVersionFrom_NoSkip(variables, i + 1, v)
    ELSE LET expectedRange == semverParseRange(variables[i].Versions) IN
         IF ~expectedRange.ok
         THEN [variables |-> variables,
               err |-> Err("InvalidVariableVersionRange", variables[i].Name), at |-> i]
         ELSE LET r == applyDefault(variables, i) IN
              IF r.err # NoErr THEN [variables |-> r.variables, err |-> r.err, at |-> i]
              ELSE applyDefaultVariablesForVersionFrom_NoSkip(r.variables, i + 1, v)

RECURSIVE applyDefaultVariablesForVersionFrom(_, _, _)
\* The loop of ApplyDefaultVariablesForVersion from index i on, v the
\* parsed version.
applyDefaultVariablesForVersionFrom(variables, i, v) ==
    IF i > Len(variables) THEN [variables |-> variables, err |-> NoErr, at |-> 0]
    ELSE IF variables[i].Value # ""
    THEN applyDefaultVariablesForVersionFrom(variables, i + 1, v)
    ELSE LET expectedRange == semverParseRange(variables[i].Versions) IN
         IF ~expectedRange.ok
         THEN [variables |-> variables,
               err |-> Err("InvalidVariableVersionRange", variables[i].Name), at |-> i]
         ELSE IF ~semverInRange(expectedRange.cmps, v)
         THEN applyDefaultVariablesForVersionFrom(variables, i + 1, v)
         ELSE LET r == applyDefault(variables, i) IN
              IF r.err # NoErr THEN [variables |-> r.variables, err |-> r.err, at |-> i]
              ELSE applyDefaultVariablesForVersionFrom(r.variables, i + 1, v)

\* ApplyDefaultVariablesForVersion checking the config's range after the loop.
ApplyDefaultVariablesForVersion_LateRangeCheck(cfg, version) ==
    LET v == semverParse(version)
        expectedConfigVersionRange == semverParseRange(cfg.Versions)
    IN
    IF ~v.ok
    THEN [variables |-> cfg.Variables, err |-> Err("InvalidVersion", version), at |-> 0]
    ELSE IF ~expectedConfigVersionRange.ok
    THEN [variables |-> cfg.Variables,
          err |-> Err("InvalidConfigVersionRange", cfg.Versions), at |-> 0]
    ELSE LET r == applyDefaultVariablesForVersionFrom(cfg.Variables, 1, v.v) IN
         IF ~semverInRange(expectedConfigVersionRange.cmps, v.v)
         THEN [variables |-> r.variables, err |-> Err("VersionOutOfRange", version),
               at |-> 0]
         ELSE r

\* ApplyDefaultVariablesForVersion: the version and the config's range are
\* checked before the loop.
ApplyDefaultVariablesForVersion(cfg, version) ==
    LET v == semverParse(version)
        expectedConfigVersionRange == semverParseRange(cfg.Versions)
    IN
    IF ~v.ok
    THEN [variables |-> cfg.Variables, err |-> Err("InvalidVersion", version), at |-> 0]
    ELSE IF ~expectedConfigVersionRange.ok
    THEN [variables |-> cfg.Variables,
          err |-> Err("InvalidConfigVersionRange", cfg.Versions), at |-> 0]
    ELSE IF ~semverInRange(expectedConfigVersionRange.cmps, v.v)
    THEN [variables |-> cfg.Variables, err |-> Err("VersionOutOfRange", version), at |-> 0]
    ELSE applyDefaultVariablesForVersionFrom(cfg.Variables, 1, v.v)

-----------------------------------------------------------------------------
(* The configs the model starts from.  Names are unique within a config   *)
(* (spec section 3); the declaration order is A, B, C.  Every Variable     *)
(* draws from the same options, so a config with another declaration       *)
(* order is one of these up to renaming.                                   *)

Names == <<"A", "B", "C">>

\* A name no config declares.
Undeclared == "Z"

ExplicitValue(n) == CASE n = "A" -> "va" [] n = "B" -> "vb" [] OTHER -> "vc"

InlineDefault(n) == CASE n = "A" -> "da" [] n = "B" -> "db" [] OTHER -> "dc"

ConfigRange == ">=1.0.0 <3.0.0"

NoOverrides == [k \in {} |-> ""]

MkConfig(versions, variables) ==
    [Versions |-> versions, Variables |-> variables,
     Validators |-> NoOverrides, Transformers |-> NoOverrides,
     FileNameOverrideMap |-> NoOverrides]

\* A Variable the schema leaves unset: any default, any reference, any range.
UnsetVars(n, refs, ranges) ==
    [Name : {n}, Value : {""}, DefRef : refs, DefValue : {"", InlineDefault(n)},
     Versions : ranges, Kind : {""}, ConditionalRef : {""},
     ExampleValues : {<< >>}]

\* A Variable with an explicit value.  No operation reads the default, the
\* reference or the range of a Variable whose value is set, so one is enough.
SetVars(n) ==
    [Name : {n}, Value : {ExplicitValue(n)}, DefRef : {""}, DefValue : {""},
     Versions : {">=1.0.0"}, Kind : {""}, ConditionalRef : {""},
     ExampleValues : {<< >>}]

VarLists(refs, ranges) ==
    {<<a, b, c>> :
        a \in UnsetVars("A", refs, ranges) \cup SetVars("A"),
        b \in UnsetVars("B", refs, ranges) \cup SetVars("B"),
        c \in UnsetVars("C", refs, ranges) \cup SetVars("C")}

\* Reference graphs of every shape under a parseable config range and
\* parseable Variable ranges; and, without references, every range string
\* for the config and the Variables.
DefaultsConfigs ==
    {MkConfig(ConfigRange, vs) :
        vs \in VarLists({"", "A", "B", "C", Undeclared}, {">=1.0.0", ">=2.0.0"})}
    \cup
    {MkConfig(r, vs) : r \in {"", ">=2.0.0"},
                       vs \in VarLists({""}, {"", ">=1.0.0", ">=2.0.0"})}

NoCall == [op |-> "none", arg |-> "", val |-> "", err |-> NoErr, at |-> 0,
           consulted |-> << >>]

\* No second DraftConfig exists.
NoConfig == [Versions |-> "", Variables |-> << >>, Validators |-> NoOverrides,
             Transformers |-> NoOverrides, FileNameOverrideMap |-> NoOverrides,
             isNil |-> TRUE]

secondVars == <<d2, ret2, shared>>

NoSecondConfig ==
    /\ d2 = NoConfig
    /\ ret2 = NoCall
    /\ shared = {}

NoTemplate == [isNil |-> TRUE, configNil |-> TRUE, src |-> "", dest |-> "",
               filesNil |-> TRUE, version |-> ""]

\* The process is gone after a fatal stack overflow.
Alive == ret.err # StackOverflow

Init ==
    /\ d \in DefaultsConfigs
    /\ ret = NoCall
    /\ NoSecondConfig
    /\ tmpl = NoTemplate
    /\ tree = << >>
    /\ pc = "Idle"
    /\ walk = 0
    /\ idx = 0
    /\ writes = << >>
    /\ genErr = NoErr

renderVars == <<tmpl, tree, pc, walk, idx, writes, genErr>>

\* d.ApplyDefaultVariables()
CallApplyDefaultVariables ==
    /\ Alive
    /\ LET r == ApplyDefaultVariables(d.Variables) IN
        /\ d' = [d EXCEPT !.Variables = r.variables]
        /\ ret' = [op |-> "ApplyDefaultVariables", arg |-> "", val |-> "",
                   err |-> r.err, at |-> r.at, consulted |-> << >>]
    /\ UNCHANGED renderVars
    /\ UNCHANGED secondVars

\* d.ApplyDefaultVariablesForVersion(version)
CallApplyDefaultVariablesForVersion ==
    /\ Alive
    /\ \E version \in VersionStrings :
        LET r == ApplyDefaultVariablesForVersion(d, version) IN
        /\ d' = [d EXCEPT !.Variables = r.variables]
        /\ ret' = [op |-> "ApplyDefaultVariablesForVersion", arg |-> version,
                   val |-> "", err |-> r.err, at |-> r.at, consulted |-> << >>]
    /\ UNCHANGED renderVars
    /\ UNCHANGED secondVars

Next ==
    \/ CallApplyDefaultVariables
    \/ CallApplyDefaultVariablesForVersion

Spec == Init /\ [][Next]_vars

-----------------------------------------------------------------------------
(* Reading and writing Variables: SetVariable, the override maps and       *)
(* GetVariableValue, on a config that declares A of kind "int" and B of no *)
(* kind.                                                                   *)

AccessValues == {"", "12", "abc"}

AccessNames == {"A", "B", Undeclared}

Kinds == {"", "int"}

AccessConfigs ==
    {MkConfig(ConfigRange,
              << [Name |-> "A", Value |-> a, DefRef |-> "", DefValue |-> "",
                  Versions |-> ">=1.0.0", Kind |-> "int",
                  ConditionalRef |-> "", ExampleValues |-> << >>],
                 [Name |-> "B", Value |-> b, DefRef |-> "", DefValue |-> "",
                  Versions |-> ">=1.0.0", Kind |-> "",
                  ConditionalRef |-> "", ExampleValues |-> << >>] >>) :
        a \in AccessValues, b \in AccessValues}

InitAccess ==
    /\ d \in AccessConfigs
    /\ ret = NoCall
    /\ NoSecondConfig
    /\ tmpl = NoTemplate
    /\ tree = << >>
    /\ pc = "Idle"
    /\ walk = 0
    /\ idx = 0
    /\ writes = << >>
    /\ genErr = NoErr

\* d.GetVariableValue(name)
CallGetVariableValue ==
    /\ Alive
    /\ \E name \in AccessNames :
        LET r == GetVariableValue(d, name) IN
        ret' = [op |-> "GetVariableValue", arg |-> name, val |-> r.val,
                err |-> r.err, at |-> 0, consulted |-> r.consulted]
    /\ UNCHANGED <<d, renderVars>>
    /\ UNCHANGED secondVars

\* d.SetVariable(name, value)
CallSetVariable ==
    /\ Alive
    /\ \E name \in AccessNames, value \in AccessValues :
        /\ d' = [d EXCEPT !.Variables = SetVariable(d.Variables, name, value)]
        /\ ret' = [op |-> "SetVariable", arg |-> name, val |-> value,
                   err |-> NoErr, at |-> 0, consulted |-> << >>]
    /\ UNCHANGED renderVars
    /\ UNCHANGED secondVars

\* d.SetVariableValidator(kind, validator)
CallSetVariableValidator ==
    /\ Alive
    /\ \E kind \in Kinds, f \in ValidatorFuncs :
        /\ d' = [d EXCEPT !.Validators = SetOverride(d.Validators, kind, f)]
        /\ ret' = [op |-> "SetVariableValidator", arg |-> kind, val |-> f,
                   err |-> NoErr, at |-> 0, consulted |-> << >>]
    /\ UNCHANGED renderVars
    /\ UNCHANGED secondVars

\* d.SetVariableTransformer(kind, transformer)
CallSetVariableTransformer ==
    /\ Alive
    /\ \E kind \in Kinds, g \in TransformerFuncs :
        /\ d' = [d EXCEPT !.Transformers = SetOverride(d.Transformers, kind, g)]
        /\ ret' = [op |-> "SetVariableTransformer", arg |-> kind, val |-> g,
                   err |-> NoErr, at |-> 0, consulted |-> << >>]
    /\ UNCHANGED renderVars
    /\ UNCHANGED secondVars

NextAccess ==
    \/ CallGetVariableValue
    \/ CallSetVariable
    \/ CallSetVariableValidator
    \/ CallSetVariableTransformer

SpecAccess == InitAccess /\ [][NextAccess]_vars

-----------------------------------------------------------------------------
(* Template.Generate.  A path is the sequence of its components.  The     *)
(* template tree is the list of entries fs.WalkDir visits under            *)
(* tmpl.src, in its order: the root first, the names of a directory in     *)
(* byte order, a directory's entries right after the directory.            *)

MaxFiles == 3

\* Everything a template tree of the model can hold, in walk order.  parses:
\* text/template parses the file; refs: the names the file passes to
\* .Config.GetVariableValue.
TreeUniverse ==
    << [path |-> << >>,                    isDir |-> TRUE,  parses |-> TRUE,  refs |-> {}],
       [path |-> <<"Dockerfile">>,         isDir |-> FALSE, parses |-> TRUE,  refs |-> {}],
       [path |-> <<"Draft.YAML">>,         isDir |-> FALSE, parses |-> FALSE, refs |-> {}],
       [path |-> <<"bad.tmpl">>,           isDir |-> FALSE, parses |-> FALSE, refs |-> {}],
       [path |-> <<"draft.yaml">>,         isDir |-> FALSE, parses |-> FALSE, refs |-> {}],
       [path |-> <<"missing.tmpl">>,       isDir |-> FALSE, parses |-> TRUE,  refs |-> {Undeclared}],
       [path |-> <<"sub">>,                isDir |-> TRUE,  parses |-> TRUE,  refs |-> {}],
       [path |-> <<"sub", "Dockerfile">>,  isDir |-> FALSE, parses |-> TRUE,  refs |-> {"B"}],
       [path |-> <<"sub", "draft.yaml">>,  isDir |-> FALSE, parses |-> FALSE, refs |-> {}],
       [path |-> <<"svc.yaml">>,           isDir |-> FALSE, parses |-> TRUE,  refs |-> {"A"}] >>

RECURSIVE Select(_, _, _)
\* The entries of seq at the indices in keep, in the order of seq.
Select(seq, keep, i) ==
    IF i > Len(seq) THEN << >>
    ELSE (IF i \in keep THEN <<seq[i]>> ELSE << >>) \o Select(seq, keep, i + 1)

\* The trees: the root and at most MaxFiles more entries, an entry of a
\* directory only with the directory.
Trees ==
    {Select(TreeUniverse, keep \cup {1}, 1) :
        keep \in {k \in SUBSET (2..Len(TreeUniverse)) :
                    /\ Cardinality(k) <= MaxFiles
                    /\ \A i \in k :
                        Len(TreeUniverse[i].path) = 2
                        => \E j \in k : /\ TreeUniverse[j].isDir
                                        /\ TreeUniverse[j].path =
                                            <<TreeUniverse[i].path[1]>>}}

\* filepath.Base of a path with at least one component.
Base(path) == path[Len(path)]

\* strings.ToLower on the file names of the model.
ToLower(name) == IF name = "Draft.YAML" THEN "draft.yaml" ELSE name

\* strings.EqualFold(a, b)
EqualFold(a, b) == ToLower(a) = ToLower(b)

SrcDir == "template"

\* d.Name() of a walked entry: the last component, the root's being src's.
EntryName(t, entry) == IF entry.path = << >> THEN t.src ELSE Base(entry.path)

\* validate without the test of the destination.
validate_NoDestinationTest(t) ==
    IF t.isNil THEN Err("TemplateNil", "")
    ELSE IF t.configNil THEN Err("ConfigNil", "")
    ELSE IF t.src = "" THEN Err("SourceEmpty", "")
    ELSE IF t.filesNil THEN Err("FilesNil", "")
    ELSE IF t.version = "" THEN Err("VersionEmpty", "")
    ELSE NoErr

\* Template.validate
validate(t) ==
    IF t.isNil THEN Err("TemplateNil", "")
    ELSE IF t.configNil THEN Err("ConfigNil", "")
    ELSE IF t.src = "" THEN Err("SourceEmpty", "")
    ELSE IF t.dest = "" THEN Err("DestinationEmpty", "")
    ELSE IF t.filesNil THEN Err("FilesNil", "")
    ELSE IF t.version = "" THEN Err("VersionEmpty", "")
    ELSE NoErr

\* writeTemplate writing to the file's own path below the destination.
writeTemplate_KeepsRelativePath(t, cfg, entry, readOK, writeOK) ==
    LET inputFile == <<t.src>> \o entry.path
        failing == {n \in entry.refs : GetVariableValue(cfg, n).err # NoErr}
    IN
    IF ~readOK THEN [err |-> Err("ReadFailed", Base(inputFile)), calls |-> << >>]
    ELSE IF ~entry.parses THEN [err |-> Err("ParseFailed", Base(inputFile)), calls |-> << >>]
    ELSE IF failing # {}
    THEN [err |-> Err("ExecuteFailed", Base(inputFile)), calls |-> << >>]
    ELSE LET call == [path |-> <<t.dest>> \o entry.path,
                      data |-> [n \in entry.refs |-> GetVariableValue(cfg, n).val],
                      from |-> inputFile,
                      ok |-> writeOK]
         IN [err |-> IF writeOK THEN NoErr ELSE Err("WriteFailed", Base(inputFile)),
             calls |-> <<call>>]

\* writeTemplate(draftTemplate, inputFile): readOK and writeOK are what
\* fs.ReadFile and the writer answer.  Returns the error and the WriteFile
\* calls made (none or one).
writeTemplate(t, cfg, entry, readOK, writeOK) ==
    LET inputFile == <<t.src>> \o entry.path
        failing == {n \in entry.refs : GetVariableValue(cfg, n).err # NoErr}
    IN
    IF ~readOK THEN [err |-> Err("ReadFailed", Base(inputFile)), calls |-> << >>]
    ELSE IF ~entry.parses THEN [err |-> Err("ParseFailed", Base(inputFile)), calls |-> << >>]
    ELSE IF failing # {}
    THEN [err |-> Err("ExecuteFailed", Base(inputFile)), calls |-> << >>]
    ELSE LET call == [path |-> <<t.dest, Base(inputFile)>>,
                      data |-> [n \in entry.refs |-> GetVariableValue(cfg, n).val],
                      from |-> inputFile,
                      ok |-> writeOK]
         IN [err |-> IF writeOK THEN NoErr ELSE Err("WriteFailed", Base(inputFile)),
             calls |-> <<call>>]

\* The function of generateTemplate returning nil when writeTemplate fails.
walkDirFn_ErrorDropped(t, cfg, entry, readOK, writeOK) ==
    IF entry.isDir THEN [err |-> NoErr, calls |-> << >>]
    ELSE IF EqualFold(EntryName(t, entry), "draft.yaml")
    THEN [err |-> NoErr, calls |-> << >>]
    ELSE [err |-> NoErr, calls |-> writeTemplate(t, cfg, entry, readOK, writeOK).calls]

\* The function generateTemplate hands to fs.WalkDir.
walkDirFn(t, cfg, entry, readOK, writeOK) ==
    IF entry.isDir THEN [err |-> NoErr, calls |-> << >>]
    ELSE IF EqualFold(EntryName(t, entry), "draft.yaml")
    THEN [err |-> NoErr, calls |-> << >>]
    ELSE writeTemplate(t, cfg, entry, readOK, writeOK)

GenVar(name, value, ref, default, range, kind) ==
    [Name |-> name, Value |-> value, DefRef |-> ref, DefValue |-> default,
     Versions |-> range, Kind |-> kind, ConditionalRef |-> "",
     ExampleValues |-> << >>]

\* The configs Generate runs on: A of kind "int", set (to a value the
\* validator accepts or rejects) or unset with or without a default, in or
\* out of range; B set or defaulting to another Variable; C unset,
\* referring to itself, out of range for 1.5.0.
GenConfigs ==
    {MkConfig(ConfigRange, <<a, b, GenVar("C", "", "C", "", ">=2.0.0", "")>>) :
        a \in {GenVar("A", "12", "", "", ">=1.0.0", "int"),
               GenVar("A", "abc", "", "", ">=1.0.0", "int"),
               GenVar("A", "", "", "12", ">=1.0.0", "int"),
               GenVar("A", "", "", "", ">=1.0.0", "int"),
               GenVar("A", "", "", "12", ">=2.0.0", "int"),
               GenVar("A", "", "B", "", ">=1.0.0", "int")},
        b \in {GenVar("B", "vb", "", "", ">=1.0.0", ""),
               GenVar("B", "", "A", "", ">=1.0.0", ""),
               GenVar("B", "", "C", "", ">=1.0.0", "")}}

GoodTemplate ==
    [isNil |-> FALSE, configNil |-> FALSE, src |-> SrcDir, dest |-> "out",
     filesNil |-> FALSE, version |-> "1.5.0"]

\* The Templates: every version string, and each defect validate looks for.
Templates ==
    {[GoodTemplate EXCEPT !.version = v] : v \in VersionStrings}
    \cup {NoTemplate,
          [GoodTemplate EXCEPT !.configNil = TRUE],
          [GoodTemplate EXCEPT !.src = ""],
          [GoodTemplate EXCEPT !.dest = ""],
          [GoodTemplate EXCEPT !.filesNil = TRUE],
          [GoodTemplate EXCEPT !.src = "", !.version = ""]}

InitGenerate ==
    /\ d \in GenConfigs
    /\ ret = NoCall
    /\ NoSecondConfig
    /\ tmpl \in Templates
    /\ tree \in Trees
    /\ pc = "Idle"
    /\ walk = 0
    /\ idx = 0
    /\ writes = << >>
    /\ genErr = NoErr

\* Generate, line 59: t.validate()
GenerateValidate ==
    /\ pc = "Idle"
    /\ LET err == validate(tmpl) IN
        /\ pc' = IF err = NoErr THEN "Validated" ELSE "Failed"
        /\ genErr' = err
    /\ UNCHANGED <<d, ret, tmpl, tree, walk, idx, writes>>
    /\ UNCHANGED secondVars

\* Generate, line 64: t.Config.ApplyDefaultVariablesForVersion(t.version)
GenerateApplyDefaults ==
    /\ pc = "Validated"
    /\ LET r == ApplyDefaultVariablesForVersion(d, tmpl.version) IN
        /\ d' = [d EXCEPT !.Variables = r.variables]
        /\ ret' = [op |-> "ApplyDefaultVariablesForVersion", arg |-> tmpl.version,
                   val |-> "", err |-> r.err, at |-> r.at, consulted |-> << >>]
        /\ pc' = IF r.err = NoErr THEN "DefaultsApplied"
                 ELSE IF r.err = StackOverflow THEN "Crashed"
                 ELSE "Failed"
        /\ genErr' = IF r.err = StackOverflow THEN genErr ELSE r.err
    /\ UNCHANGED <<tmpl, tree, walk, idx, writes>>
    /\ UNCHANGED secondVars

\* Generate, lines 68 and 71: a call of generateTemplate starts fs.WalkDir,
\* which stats the root; when that fails the function of generateTemplate is
\* called with a nil entry and dereferences it.
GenerateTemplateStart ==
    /\ pc \in {"DefaultsApplied", "FirstWalkReturned"}
    /\ walk' = walk + 1
    /\ idx' = 0
    /\ \E statOK \in BOOLEAN : pc' = IF statOK THEN "Walking" ELSE "Panicked"
    /\ UNCHANGED <<d, ret, tmpl, tree, writes, genErr>>
    /\ UNCHANGED secondVars

\* fs.WalkDir calls the function of generateTemplate on the next entry.
WalkDirFn ==
    /\ pc = "Walking"
    /\ idx < Len(tree)
    /\ \E readOK \in BOOLEAN, writeOK \in BOOLEAN :
        LET r == walkDirFn(tmpl, d, tree[idx + 1], readOK, writeOK) IN
        /\ writes' = writes \o r.calls
        /\ IF r.err = NoErr
           THEN idx' = idx + 1 /\ UNCHANGED <<pc, genErr>>
           ELSE pc' = "Failed" /\ genErr' = r.err /\ UNCHANGED idx
    /\ UNCHANGED <<d, ret, tmpl, tree, walk>>
    /\ UNCHANGED secondVars

\* fs.WalkDir has visited every entry: generateTemplate returns nil, to
\* line 68 the first time and to line 71, and so to the caller, the second.
GenerateTemplateReturn ==
    /\ pc = "Walking"
    /\ idx = Len(tree)
    /\ pc' = IF walk = 1 THEN "FirstWalkReturned" ELSE "Rendered"
    /\ UNCHANGED <<d, ret, tmpl, tree, walk, idx, writes, genErr>>
    /\ UNCHANGED secondVars

NextGenerate ==
    \/ GenerateValidate
    \/ GenerateApplyDefaults
    \/ GenerateTemplateStart
    \/ WalkDirFn
    \/ GenerateTemplateReturn

SpecGenerate == InitGenerate /\ [][NextGenerate]_vars

-----------------------------------------------------------------------------
(* Vocabulary of the properties *)

ApplyOps == {"ApplyDefaultVariables", "ApplyDefaultVariablesForVersion"}

\* The call r got past the checks made before the loop over the Variables.
ReachedLoop(cfg, r) ==
    \/ r.op = "ApplyDefaultVariables"
    \/ /\ r.op = "ApplyDefaultVariablesForVersion"
       /\ semverParse(r.arg).ok
       /\ semverParseRange(cfg.Versions).ok
       /\ semverInRange(semverParseRange(cfg.Versions).cmps, semverParse(r.arg).v)

\* The version of call r satisfies the range of Variable i.
RangeSatisfied(cfg, r, i) ==
    /\ semverParseRange(cfg.Variables[i].Versions).ok
    /\ semverInRange(semverParseRange(cfg.Variables[i].Versions).cmps,
                     semverParse(r.arg).v)

\* The version of call r does not satisfy the (parseable) range of Variable i.
RangeNotSatisfied(cfg, r, i) ==
    /\ semverParseRange(cfg.Variables[i].Versions).ok
    /\ ~semverInRange(semverParseRange(cfg.Variables[i].Versions).cmps,
                      semverParse(r.arg).v)

\* Variable i is one the loop of call r resolves when it finds it unset.
InScope(cfg, r, i) ==
    /\ ReachedLoop(cfg, r)
    /\ r.op = "ApplyDefaultVariablesForVersion" => RangeSatisfied(cfg, r, i)

\* The loop of call r finished the iteration of Variable i without an error.
Passed(r, i) == r.err = NoErr \/ r.at > i

Indices(cfg) == 1..Len(cfg.Variables)

\* Variable i's default references Variable j.
Refers(cfg, i, j) ==
    /\ cfg.Variables[i].DefRef # ""
    /\ cfg.Variables[i].DefRef = cfg.Variables[j].Name

Unset(cfg, i) == cfg.Variables[i].Value = ""

\* C4: when A's default references B, B's default references A and both are
\* unset, a default application whose loop has A in scope fails, at A or
\* earlier in the list, and leaves A unset; when the loop gets to A the
\* error is CyclicalReference.
C4_MutualReferenceFails ==
    [][\A i, j \in Indices(d) :
         (/\ ret'.op \in ApplyOps
          /\ i # j /\ Refers(d, i, j) /\ Refers(d, j, i)
          /\ Unset(d, i) /\ Unset(d, j)
          /\ InScope(d, ret', i))
         => /\ ret'.err # NoErr
            /\ ret'.at \in 1..i
            /\ ret'.at = i => ret'.err.kind = "CyclicalReference"
            /\ Unset(d', i)]_vars

C4_Witness ==
    \E i, j \in Indices(d) :
        /\ ret.op \in ApplyOps /\ ret.at = i /\ ret.err.kind = "CyclicalReference"
        /\ i # j /\ Refers(d, i, j) /\ Refers(d, j, i)
        /\ Unset(d, i) /\ Unset(d, j)

\* A -> B -> C -> B: three Variables, all unset.
ChainRevisitsSecond(cfg, i, j, k) ==
    /\ i # j /\ j # k /\ i # k
    /\ Refers(cfg, i, j) /\ Refers(cfg, j, k) /\ Refers(cfg, k, j)
    /\ Unset(cfg, i) /\ Unset(cfg, j) /\ Unset(cfg, k)

\* C5 as stated: for a chain A -> B -> C -> B of unset Variables, resolving
\* A does not fail with CyclicalReference.
C5_AsStated ==
    \A i, j, k \in Indices(d) :
        (/\ ret.op \in ApplyOps /\ ret.at = i
         /\ ChainRevisitsSecond(d, i, j, k))
        => ret.err.kind # "CyclicalReference"

RECURSIVE Hop(_, _, _)
\* The Variable n references away from Variable j (0 when the chain left
\* the config or ended).
Hop(cfg, j, n) ==
    IF n = 0 THEN j
    ELSE LET p == Hop(cfg, j, n - 1) IN
         IF p = 0 \/ cfg.Variables[p].DefRef = "" THEN 0
         ELSE GetVariable(cfg.Variables, cfg.Variables[p].DefRef)

\* The chain that starts at Variable j comes back to j through unset Variables.
ReturnsTo(cfg, j) ==
    \E n \in 1..Len(cfg.Variables) :
        /\ Hop(cfg, j, n) = j
        /\ \A m \in 0..(n - 1) : Hop(cfg, j, m) # 0 /\ Unset(cfg, Hop(cfg, j, m))

\* C5 amended: the hops after the first are compared with the first
\* referenced Variable.  For a chain A -> B -> C -> B of unset Variables,
\* resolving A fails with CyclicalReference; and a default application
\* fails with CyclicalReference at a Variable only when the chain from the
\* Variable it references comes back to that referenced Variable.
C5_CycleCheckedAgainstFirstReferenced ==
    /\ \A i, j, k \in Indices(d) :
        (/\ ret.op \in ApplyOps /\ ret.at = i
         /\ ChainRevisitsSecond(d, i, j, k))
        => ret.err.kind = "CyclicalReference"
    /\ \A i \in Indices(d) :
        (/\ ret.op \in ApplyOps /\ ret.at = i
         /\ ret.err.kind = "CyclicalReference")
        => /\ GetVariable(d.Variables, d.Variables[i].DefRef) # 0
           /\ ReturnsTo(d, GetVariable(d.Variables, d.Variables[i].DefRef))

C5_Witness ==
    \E i, j, k \in Indices(d) :
        /\ ret.op \in ApplyOps /\ ret.at = i
        /\ ChainRevisitsSecond(d, i, j, k)
        /\ ret.err.kind = "CyclicalReference"

\* C6: ApplyDefaultVariablesForVersion that fails with InvalidVersion or
\* VersionOutOfRange leaves the Variable list, and so every value, as it was.
C6_VersionErrorsTouchNothing ==
    [][(/\ ret'.op = "ApplyDefaultVariablesForVersion"
        /\ ret'.err.kind \in {"InvalidVersion", "VersionOutOfRange"})
       => d'.Variables = d.Variables]_vars

C6_Witness ==
    /\ ret.op = "ApplyDefaultVariablesForVersion"
    /\ ret.err.kind = "VersionOutOfRange"
    /\ \E i \in Indices(d) :
        /\ Unset(d, i) /\ d.Variables[i].DefValue # ""
        /\ RangeSatisfied(d, ret, i)

\* C7: in ApplyDefaultVariablesForVersion an unset Variable whose range the
\* version does not satisfy is still unset after the call, whatever default
\* it declares, and the call never fails at that Variable.
C7_OutOfRangeVariableSkipped ==
    [][(/\ ret'.op = "ApplyDefaultVariablesForVersion"
        /\ ReachedLoop(d, ret'))
       => \A i \in Indices(d) :
            (Unset(d, i) /\ RangeNotSatisfied(d, ret', i))
            => (Unset(d', i) /\ ret'.at # i)]_vars

C7_Witness ==
    /\ ret.op = "ApplyDefaultVariablesForVersion"
    /\ ret.err = NoErr
    /\ \E i \in Indices(d) :
        /\ Unset(d, i) /\ RangeNotSatisfied(d, ret, i)
        /\ d.Variables[i].DefValue # "" /\ d.Variables[i].DefRef # ""
    /\ \E i \in Indices(d) :
        d.Variables[i].Value = d.Variables[i].DefValue /\ ~Unset(d, i)

\* C8: a default application (for a version: one that parses and is in the
\* config's range) on a config whose Variables all have a value returns no
\* error and changes nothing; and the same call repeated right after it
\* returned no error returns no error and changes no Variable.
C8_ApplyDefaultsIdempotent ==
    [][/\ (/\ ret'.op \in ApplyOps
           /\ ReachedLoop(d, ret')
           /\ \A i \in Indices(d) : ~Unset(d, i))
          => (ret'.err = NoErr /\ d' = d)
       /\ (/\ ret.op \in ApplyOps /\ ret.err = NoErr
           /\ ret'.op = ret.op /\ ret'.arg = ret.arg)
          => (ret'.err = NoErr /\ d'.Variables = d.Variables)]_vars

C8_Witness ==
    /\ ret.op \in ApplyOps /\ ret.err = NoErr
    /\ \E i \in Indices(d) : ~Unset(d, i) /\ d.Variables[i].Value = d.Variables[i].DefValue
    /\ \E i \in Indices(d) : ~Unset(d, i) /\ d.Variables[i].DefRef # ""

\* The Variables as the loop saw them when it resolved Variable i: the ones
\* before i as the call left them, the others as the call found them.
SeenAt(before, after, i) ==
    [before EXCEPT !.Variables =
        [j \in 1..Len(before.Variables) |->
            IF j < i THEN after.Variables[j] ELSE before.Variables[j]]]

\* Variable p ends a chain: it has a value, or it has no reference.
EndsChain(cfg, p) ==
    p # 0 /\ (~Unset(cfg, p) \/ cfg.Variables[p].DefRef = "")

NoChainResult == "<no chain result>"

\* What the chain that starts at Variable j yields: the value of the first
\* Variable on it that has one, else the inline default of its last Variable.
ChainResult(cfg, j) ==
    LET stops == {n \in 0..Len(cfg.Variables) :
                    /\ EndsChain(cfg, Hop(cfg, j, n))
                    /\ \A m \in 0..(n - 1) :
                        Hop(cfg, j, m) # 0 /\ ~EndsChain(cfg, Hop(cfg, j, m))}
    IN
    IF stops = {} THEN NoChainResult
    ELSE LET n == CHOOSE n \in stops : TRUE
             last == cfg.Variables[Hop(cfg, j, n)]
         IN IF last.Value # "" THEN last.Value ELSE last.DefValue

\* C9: an unset Variable with a default reference that a default
\* application resolves gets the result of the chain from the referenced
\* Variable (the value of the first Variable on it that has one, else the
\* inline default of the last one), and its own inline default only when
\* that result is empty.  For A -> B -> C, all unset, C with an inline
\* default and no reference, A ends with C's inline default.
C9_ChainResolution ==
    [][ret'.op \in ApplyOps =>
        /\ \A i \in Indices(d) :
            (Unset(d, i) /\ d.Variables[i].DefRef # "" /\ ~Unset(d', i))
            => LET j == GetVariable(d.Variables, d.Variables[i].DefRef)
                   c == ChainResult(SeenAt(d, d', i), j)
               IN /\ j # 0
                  /\ c # NoChainResult
                  /\ d'.Variables[i].Value =
                        IF c # "" THEN c ELSE d.Variables[i].DefValue
        /\ \A i, j, k \in Indices(d) :
            (/\ i # j /\ j # k /\ i # k
             /\ Refers(d, i, j) /\ Refers(d, j, k)
             /\ d.Variables[k].DefRef = "" /\ d.Variables[k].DefValue # ""
             /\ Unset(d, i) /\ Unset(d, j) /\ Unset(d, k)
             /\ InScope(d, ret', i) /\ Passed(ret', i))
            => d'.Variables[i].Value = d.Variables[k].DefValue]_vars

C9_Witness ==
    \E i, j, k \in Indices(d) :
        /\ ret.op \in ApplyOps /\ ret.err = NoErr
        /\ i # j /\ j # k /\ i # k
        /\ Refers(d, i, j) /\ Refers(d, j, k)
        /\ d.Variables[k].DefRef = ""
        /\ d.Variables[i].DefValue # "" /\ d.Variables[j].DefValue # ""
        /\ d.Variables[i].Value = d.Variables[k].DefValue
        /\ d.Variables[j].Value = d.Variables[k].DefValue
        /\ i < j

\* The Variables named name, in declaration order.
Named(cfg, name) == {i \in Indices(cfg) : cfg.Variables[i].Name = name}

\* C10: GetVariableValue(name) answers NotFound when no Variable has the
\* name; else Empty when the value is empty, without calling the validator;
\* else ValidationFailed when the validator of the kind rejects the value,
\* without calling the transformer; else TransformationFailed when the
\* transformer of the kind fails; else the transformed value.  The call
\* leaves the config, and so the raw stored value, as it was.
C10_GetVariableValuePrecedence ==
    [][ret'.op = "GetVariableValue" =>
        /\ d' = d
        /\ IF Named(d, ret'.arg) = {}
           THEN ret'.err.kind = "NotFound" /\ ret'.consulted = << >>
           ELSE LET i == CHOOSE i \in Named(d, ret'.arg) :
                            \A j \in Named(d, ret'.arg) : i <= j
                    raw == d.Variables[i].Value
                    f == GetVariableValidator(d, d.Variables[i].Kind)
                    g == GetVariableTransformer(d, d.Variables[i].Kind)
                IN
                IF raw = ""
                THEN ret'.err.kind = "Empty" /\ ret'.consulted = << >>
                ELSE IF validatorRejects(f, raw)
                THEN /\ ret'.err.kind = "ValidationFailed"
                     /\ ret'.consulted = <<"validator">>
                ELSE IF transformerApply(g, raw).failed
                THEN ret'.err.kind = "TransformationFailed"
                ELSE /\ ret'.err = NoErr
                     /\ ret'.val = transformerApply(g, raw).val
                     /\ d'.Variables[i].Value = raw]_vars

\* The validator of the kind rejects the value and its transformer would
\* fail on it too: the answer is ValidationFailed.
C10_Witness ==
    /\ ret.op = "GetVariableValue"
    /\ ret.err.kind = "ValidationFailed"
    /\ \E i \in Named(d, ret.arg) :
        transformerApply(GetVariableTransformer(d, d.Variables[i].Kind),
                         d.Variables[i].Value).failed

-----------------------------------------------------------------------------
(* Template.Generate *)

\* What validate asks of a Template.
ValidTemplate(t) ==
    /\ ~t.isNil /\ ~t.configNil /\ ~t.filesNil
    /\ t.src # "" /\ t.dest # "" /\ t.version # ""

\* C1: a WriteFile call is made only once validate has passed and
\* ApplyDefaultVariablesForVersion(version) has returned nil; when validate
\* fails, or the default application returns an error, Generate returns an
\* error and no WriteFile call is made.
C1_WritesOnlyAfterValidateAndDefaults ==
    /\ writes # << >> =>
        /\ ValidTemplate(tmpl)
        /\ ret.op = "ApplyDefaultVariablesForVersion"
        /\ ret.arg = tmpl.version
        /\ ret.err = NoErr
    /\ (~ValidTemplate(tmpl) /\ pc # "Idle") =>
        (pc = "Failed" /\ genErr # NoErr /\ writes = << >> /\ ret = NoCall)
    /\ (ret.op = "ApplyDefaultVariablesForVersion" /\ ret.err \notin {NoErr, StackOverflow}) =>
        (pc = "Failed" /\ genErr = ret.err /\ writes = << >>)

\* The default application failed on a tree that holds a file to render.
C1_Witness ==
    /\ pc = "Failed"
    /\ ret.err.kind = "NoDefaultAvailable"
    /\ writes = << >>
    /\ \E i \in 1..Len(tree) :
        ~tree[i].isDir /\ tree[i].parses /\ tree[i].refs = {}

\* The entries of the tree that are files other than the config file.
SourceFiles ==
    {i \in 1..Len(tree) :
        ~tree[i].isDir /\ ToLower(Base(tree[i].path)) # "draft.yaml"}

\* The WriteFile calls made for entry i of the tree.
WritesFor(i) ==
    {k \in 1..Len(writes) : writes[k].from = <<tmpl.src>> \o tree[i].path}

\* C2 as stated: when Generate returns no error the tree was walked once
\* and every source file that is not the config file caused exactly one
\* WriteFile call.
C2_AsStated ==
    pc = "Rendered" =>
        /\ walk = 1
        /\ \A i \in SourceFiles : Cardinality(WritesFor(i)) = 1

\* Entry e is a file the walk renders.
Rendered(e) == ~e.isDir /\ ToLower(Base(e.path)) # "draft.yaml"

\* Rendering entry e cannot succeed: it does not parse, or it reads a name
\* the config does not declare or a Variable without a value.
CannotRender(cfg, e) ==
    \/ ~e.parses
    \/ \E n \in e.refs :
        \/ Named(cfg, n) = {}
        \/ \E i \in Named(cfg, n) :
            /\ \A j \in Named(cfg, n) : i <= j
            /\ Unset(cfg, i)

RenderErrors == {"ReadFailed", "ParseFailed", "ExecuteFailed", "WriteFailed"}

\* C3: in the render walk a file that cannot be rendered, or whose read or
\* write fails, makes Generate return an error; nothing is written after
\* that, and what was written before stays written.
C3_FirstFailureAbortsWalk ==
    /\ [][/\ Len(writes') >= Len(writes)
          /\ SubSeq(writes', 1, Len(writes)) = writes
          /\ (/\ pc = "Walking" /\ idx < Len(tree)
              /\ Rendered(tree[idx + 1]) /\ CannotRender(d, tree[idx + 1]))
             => (pc' = "Failed" /\ genErr' # NoErr /\ writes' = writes)
          /\ (Len(writes') > Len(writes) /\ ~writes'[Len(writes')].ok)
             => (pc' = "Failed" /\ genErr'.kind = "WriteFailed")
          /\ genErr'.kind \in RenderErrors => pc' = "Failed"
          /\ pc = "Failed" => writes' = writes]_vars
    /\ [](\A k \in 1..(Len(writes) - 1) : writes[k].ok)
    /\ [](pc \in {"Rendered", "FirstWalkReturned"} =>
            /\ \A k \in 1..Len(writes) : writes[k].ok
            /\ \A i \in 1..Len(tree) : Rendered(tree[i]) => ~CannotRender(d, tree[i]))

\* A file was written, the next one failed to execute, and a file that
\* would render comes later in the walk.
C3_Witness ==
    /\ pc = "Failed"
    /\ genErr.kind = "ExecuteFailed"
    /\ writes # << >>
    /\ \A k \in 1..Len(writes) : writes[k].ok
    /\ \E j \in (idx + 2)..Len(tree) :
        Rendered(tree[j]) /\ ~CannotRender(d, tree[j])

-----------------------------------------------------------------------------
(* The life of a DraftConfig: flags, explicit values, defaults, reads *)

\* Every order in which a range over a Go map can visit the keys.
Orders(keys) ==
    {o \in [1..Cardinality(keys) -> keys] :
        \A i, j \in 1..Cardinality(keys) : i # j => o[i] # o[j]}

RECURSIVE VariableMapToDraftConfig(_, _, _)
\* VariableMapToDraftConfig: SetVariable for every entry of the map, in the
\* order the range visits them.
VariableMapToDraftConfig(variables, flagVariablesMap, order) ==
    IF order = << >> THEN variables
    ELSE VariableMapToDraftConfig(
             SetVariable(variables, Head(order), flagVariablesMap[Head(order)]),
             flagVariablesMap, Tail(order))

FlagNames == {"A", Undeclared, "Y"}

FlagValues == {"12", "abc"}

FlagMaps ==
    UNION {[keys -> FlagValues] : keys \in (SUBSET FlagNames) \ {{}}}

\* A of kind "int" with an inline default its validator accepts or rejects;
\* B takes its default from A, and is in or out of range at 1.5.0.
LifecycleConfigs ==
    {MkConfig(ConfigRange,
              << GenVar("A", "", "", da, ">=1.0.0", "int"),
                 GenVar("B", "", "A", "", rb, "") >>) :
        da \in FlagValues, rb \in {">=1.0.0", ">=2.0.0"}}

InitLifecycle ==
    /\ d \in LifecycleConfigs
    /\ ret = NoCall
    /\ NoSecondConfig
    /\ tmpl = NoTemplate
    /\ tree = << >>
    /\ pc = "Idle"
    /\ walk = 0
    /\ idx = 0
    /\ writes = << >>
    /\ genErr = NoErr

\* d.VariableMapToDraftConfig(flagVariablesMap)
CallVariableMapToDraftConfig ==
    /\ Alive
    /\ \E flagVariablesMap \in FlagMaps :
        \E order \in Orders(DOMAIN flagVariablesMap) :
            d' = [d EXCEPT !.Variables =
                     VariableMapToDraftConfig(d.Variables, flagVariablesMap,
                                              order)]
    /\ ret' = [op |-> "VariableMapToDraftConfig", arg |-> "", val |-> "",
               err |-> NoErr, at |-> 0, consulted |-> << >>]
    /\ UNCHANGED renderVars
    /\ UNCHANGED secondVars

NextLifecycle ==
    \/ CallSetVariable
    \/ CallVariableMapToDraftConfig
    \/ CallApplyDefaultVariables
    \/ CallApplyDefaultVariablesForVersion
    \/ CallGetVariableValue

SpecLifecycle == InitLifecycle /\ [][NextLifecycle]_vars

\* The validator of Variable i's kind rejects the value stored in Variable i.
StoredValueRejected(cfg, i) ==
    validatorRejects(GetVariableValidator(cfg, cfg.Variables[i].Kind),
                     cfg.Variables[i].Value)

\* C11 as stated: in every state the calls can reach, the value of each
\* Variable is empty or accepted by the validator of the Variable's kind.
C11_AsStated ==
    \A i \in Indices(d) : Unset(d, i) \/ ~StoredValueRejected(d, i)

\* C11 amended: the value stored in a Variable is empty or whatever string
\* SetVariable, VariableMapToDraftConfig or a default put there, accepted by
\* the validator or not; it is the value GetVariableValue hands out that is
\* validated: whenever GetVariableValue returns no error for a name, the
\* value stored in the first Variable of that name is not empty and the
\* validator of its kind accepts it.
C11_ValidatedOnRead ==
    (ret.op = "GetVariableValue" /\ ret.err = NoErr)
    => LET i == GetVariable(d.Variables, ret.arg) IN
       /\ i # 0
       /\ ~Unset(d, i)
       /\ ~StoredValueRejected(d, i)

\* A read that succeeded on a config that stores a rejected value elsewhere,
\* put there by a default.
C11_Witness ==
    /\ ret.op = "GetVariableValue" /\ ret.err = NoErr /\ ret.arg = "B"
    /\ \E i \in Indices(d) :
        /\ d.Variables[i].Name = "A"
        /\ d.Variables[i].Value = d.Variables[i].DefValue
        /\ StoredValueRejected(d, i)

\* C13: a validator or transformer a caller registers for a kind is the one
\* the kind resolves to from then on, whatever the built-in table holds for
\* it, until the next registration for that kind replaces it; a registration
\* changes the resolution of no other kind, no other call changes any, and
\* before any registration every kind resolves to its built-in function.
C13_OverridesTakePrecedence ==
    /\ \A kind \in Kinds :
        /\ GetVariableValidator(d, kind) = BuiltinValidator(kind)
        /\ GetVariableTransformer(d, kind) = BuiltinTransformer(kind)
    /\ [][\A kind \in Kinds :
            /\ GetVariableValidator(d', kind) =
                  IF ret'.op = "SetVariableValidator" /\ ret'.arg = kind
                  THEN ret'.val
                  ELSE GetVariableValidator(d, kind)
            /\ GetVariableTransformer(d', kind) =
                  IF ret'.op = "SetVariableTransformer" /\ ret'.arg = kind
                  THEN ret'.val
                  ELSE GetVariableTransformer(d, kind)]_vars

\* A read of a Variable of kind "int" that holds "abc" succeeds: the
\* registered validator was called, not the built-in one, which rejects it.
C13_Witness ==
    /\ ret.op = "GetVariableValue" /\ ret.err = NoErr
    /\ LET i == GetVariable(d.Variables, ret.arg) IN
        /\ i # 0
        /\ d.Variables[i].Kind = "int"
        /\ validatorRejects(BuiltinValidator("int"), d.Variables[i].Value)
        /\ "int" \in DOMAIN d.Validators
        /\ ~validatorRejects(d.Validators["int"], d.Variables[i].Value)

UniqueNames(cfg) ==
    \A i, j \in Indices(cfg) :
        cfg.Variables[i].Name = cfg.Variables[j].Name => i = j

\* C15: on a config whose names are unique, SetVariable(name, value) keeps
\* them unique and keeps the order: when a Variable is named name, the list
\* stays as long as it was, that Variable gets the value and nothing else in
\* the list changes; when none is, the list is the old one with one Variable
\* appended, carrying the name and the value.  GetVariableMap then maps name
\* to the value and every other name to what it mapped to before.
C15_SetVariableUpserts ==
    /\ UniqueNames(d)
    /\ [][ret'.op = "SetVariable" =>
            LET name == ret'.arg
                value == ret'.val
                old == d.Variables
                new == d'.Variables
                oldMap == GetVariableMap(old)
                newMap == GetVariableMap(new)
            IN
            /\ UniqueNames(d')
            /\ IF \E i \in Indices(d) : old[i].Name = name
               THEN /\ Len(new) = Len(old)
                    /\ \A i \in Indices(d) :
                         new[i] = IF old[i].Name = name
                                  THEN [old[i] EXCEPT !.Value = value]
                                  ELSE old[i]
               ELSE /\ Len(new) = Len(old) + 1
                    /\ SubSeq(new, 1, Len(old)) = old
                    /\ new[Len(new)].Name = name
                    /\ new[Len(new)].Value = value
            /\ DOMAIN newMap = DOMAIN oldMap \cup {name}
            /\ \A n \in DOMAIN newMap :
                 newMap[n] = IF n = name THEN value ELSE oldMap[n]]_vars

\* SetVariable of a name the config did not declare: the appended
\* Variable is the last of three and holds the value.
C15_Witness ==
    /\ ret.op = "SetVariable" /\ ret.arg = Undeclared /\ ret.val = "abc"
    /\ Len(d.Variables) = 3
    /\ d.Variables[3].Name = Undeclared /\ d.Variables[3].Value = "abc"
    /\ d.Variables[1].Value = "12"

\* C14: every WriteFile call is for an entry of the tree that is a file and
\* whose name differs from draft.yaml even when case is ignored, at any
\* depth, and its path is the destination followed by the last component of
\* that file's path alone: no directory and no config file is written, and a
\* nested file lands directly under the destination.
C14_WritesFlatUnderDestination ==
    \A k \in 1..Len(writes) :
        /\ Len(writes[k].path) = 2
        /\ writes[k].path[1] = tmpl.dest
        /\ \E i \in 1..Len(tree) :
            /\ writes[k].from = <<tmpl.src>> \o tree[i].path
            /\ ~tree[i].isDir
            /\ ToLower(tree[i].path[Len(tree[i].path)]) # "draft.yaml"
            /\ writes[k].path[2] = tree[i].path[Len(tree[i].path)]

\* Generate returned no error on a tree that holds a directory with a file
\* and a config file in it: the nested file was written under the
\* destination root.
C14_Witness ==
    /\ pc = "Rendered"
    /\ \E i, j, n \in 1..Len(tree) :
        /\ tree[i].isDir /\ Len(tree[i].path) = 1
        /\ Len(tree[j].path) = 2 /\ ToLower(tree[j].path[2]) = "draft.yaml"
        /\ Len(tree[n].path) = 2 /\ ToLower(tree[n].path[2]) # "draft.yaml"
        /\ \E k \in 1..Len(writes) :
            /\ writes[k].from = <<tmpl.src>> \o tree[n].path
            /\ writes[k].path = <<tmpl.dest, tree[n].path[2]>>

\* The loop of call r got to Variable i.
LoopReached(r, i) == r.err = NoErr \/ r.at >= i

\* Neither the chain from the Variable that Variable i references nor the
\* inline default of Variable i yields a value.
NoDefaultFor(cfg, i) ==
    /\ cfg.Variables[i].DefValue = ""
    /\ \/ cfg.Variables[i].DefRef = ""
       \/ LET j == GetVariable(cfg.Variables, cfg.Variables[i].DefRef) IN
          j # 0 /\ ChainResult(cfg, j) = ""

\* C16: after ApplyDefaultVariables returned no error every Variable has a
\* value; after ApplyDefaultVariablesForVersion(version) returned no error
\* every Variable whose range version satisfies has one.  When the loop of
\* either call gets to an unset Variable it has in scope for which neither
\* the chain nor the inline default yields a value, the call returns the
\* NoDefaultAvailable error that names the Variable, and leaves it unset.
C16_SuccessLeavesNothingUnresolved ==
    [][ret'.op \in ApplyOps =>
        /\ (ret'.op = "ApplyDefaultVariables" /\ ret'.err = NoErr)
           => \A i \in Indices(d') : ~Unset(d', i)
        /\ (ret'.op = "ApplyDefaultVariablesForVersion" /\ ret'.err = NoErr)
           => \A i \in Indices(d') : RangeSatisfied(d', ret', i) => ~Unset(d', i)
        /\ \A i \in Indices(d) :
            (/\ Unset(d, i) /\ InScope(d, ret', i) /\ LoopReached(ret', i)
             /\ NoDefaultFor(SeenAt(d, d', i), i))
            => /\ ret'.err = Err("NoDefaultAvailable", d.Variables[i].Name)
               /\ ret'.at = i
               /\ Unset(d', i)]_vars

\* A call for a version that returned no error: it resolved a Variable that
\* has a reference to its inline default and skipped an unset one.
C16_Witness ==
    /\ ret.op = "ApplyDefaultVariablesForVersion" /\ ret.err = NoErr
    /\ \E i, j \in Indices(d) :
        /\ RangeSatisfied(d, ret, i) /\ d.Variables[i].DefRef # ""
        /\ d.Variables[i].Value = d.Variables[i].DefValue
        /\ Unset(d, j) /\ RangeNotSatisfied(d, ret, j)

\* C17 as stated: every default application terminates: the call returns,
\* with no error or with an error, on every config, also when the references
\* form a cycle that does not pass through the first referenced Variable;
\* the recursion of recurseReferenceVars never exhausts the stack.
C17_AsStated ==
    ret.op \in ApplyOps => ret.err # StackOverflow

-----------------------------------------------------------------------------
(* Two configs that declare the same Variables in different order *)

\* The Variables in the order perm puts them in.
Reordered(cfg, perm) ==
    [cfg EXCEPT !.Variables = [i \in 1..Len(cfg.Variables) |->
                                  cfg.Variables[perm[i]]]]

\* Every order of three Variables but the one they are declared in.
Reorderings == {perm \in Orders(1..Len(Names)) : \E i \in DOMAIN perm : perm[i] # i}

OrderConfigs ==
    {MkConfig(ConfigRange, vs) :
        vs \in VarLists({"", "A", "B", "C", Undeclared}, {">=1.0.0", ">=2.0.0"})}

InitOrder ==
    /\ d \in OrderConfigs
    /\ ret = NoCall
    /\ \E perm \in Reorderings : d2 = Reordered(d, perm)
    /\ ret2 = NoCall
    /\ shared = {}
    /\ tmpl = NoTemplate
    /\ tree = << >>
    /\ pc = "Idle"
    /\ walk = 0
    /\ idx = 0
    /\ writes = << >>
    /\ genErr = NoErr

\* ApplyDefaultVariablesForVersion(version) called on the one config and on
\* the other.
CallApplyDefaultVariablesForVersionOnBoth ==
    /\ Alive
    /\ ret2.err # StackOverflow
    /\ \E version \in VersionStrings :
        LET r == ApplyDefaultVariablesForVersion(d, version)
            r2 == ApplyDefaultVariablesForVersion(d2, version)
        IN
        /\ d' = [d EXCEPT !.Variables = r.variables]
        /\ ret' = [op |-> "ApplyDefaultVariablesForVersion", arg |-> version,
                   val |-> "", err |-> r.err, at |-> r.at, consulted |-> << >>]
        /\ d2' = [d2 EXCEPT !.Variables = r2.variables]
        /\ ret2' = [op |-> "ApplyDefaultVariablesForVersion", arg |-> version,
                    val |-> "", err |-> r2.err, at |-> r2.at, consulted |-> << >>]
    /\ UNCHANGED shared
    /\ UNCHANGED renderVars

NextOrder == CallApplyDefaultVariablesForVersionOnBoth

SpecOrder == InitOrder /\ [][NextOrder]_vars

\* The two configs hold the same Variables, in whatever order.
SameVariables(cfg, other) ==
    /\ Len(cfg.Variables) = Len(other.Variables)
    /\ \A i \in Indices(cfg) : \E j \in Indices(other) :
        other.Variables[j] = cfg.Variables[i]
    /\ \A j \in Indices(other) : \E i \in Indices(cfg) :
        cfg.Variables[i] = other.Variables[j]

\* Each name ends with the same value in both configs.
SameValues(cfg, other) ==
    GetVariableMap(cfg.Variables) = GetVariableMap(other.Variables)

\* The call on the one config and the call on the other both returned no
\* error and left the same values, or both did not return without error.
SameOutcome ==
    /\ (ret'.err = NoErr) <=> (ret2'.err = NoErr)
    /\ ret'.err = NoErr => SameValues(d', d2')

\* C19 as stated: for two configs that hold the same Variables in different
\* order, ApplyDefaultVariablesForVersion(version) returns no error on the
\* one exactly when it does on the other, and then each name ends with the
\* same value in both.
C19_AsStated ==
    [][(/\ SameVariables(d, d2)
        /\ ret'.op = "ApplyDefaultVariablesForVersion"
        /\ ret2'.op = "ApplyDefaultVariablesForVersion")
       => SameOutcome]_vars

\* An unset Variable that another unset Variable references declares both
\* a reference and an inline default.
ReferenceAndInline(cfg) ==
    \E i, j \in Indices(cfg) :
        /\ i # j /\ Unset(cfg, j) /\ Refers(cfg, j, i)
        /\ Unset(cfg, i)
        /\ cfg.Variables[i].DefRef # ""
        /\ cfg.Variables[i].DefValue # ""

\* C19 amended: the same, for configs in which no unset Variable carries
\* both a reference and an inline default.
C19_OrderIndependent ==
    [][(/\ SameVariables(d, d2)
        /\ ~ReferenceAndInline(d)
        /\ ret'.op = "ApplyDefaultVariablesForVersion"
        /\ ret2'.op = "ApplyDefaultVariablesForVersion")
       => SameOutcome]_vars

\* Both calls returned no error on configs that differ in order only: a
\* Variable took the inline default of the unset Variable it references,
\* which the version leaves out and the call skipped.
C19_Witness ==
    /\ ret.op = "ApplyDefaultVariablesForVersion" /\ ret.err = NoErr
    /\ ret2.op = "ApplyDefaultVariablesForVersion" /\ ret2.err = NoErr
    /\ d.Variables # d2.Variables
    /\ SameVariables(d, d2)
    /\ \E i, j \in Indices(d) :
        /\ i < j /\ Refers(d, i, j)
        /\ Unset(d, j) /\ RangeNotSatisfied(d, ret, j)
        /\ d.Variables[j].DefValue # ""
        /\ d.Variables[i].Value = d.Variables[j].DefValue
        /\ \E k, n \in Indices(d2) :
            /\ k > n
            /\ d2.Variables[k] = d.Variables[i]
            /\ d2.Variables[n] = d.Variables[j]

-----------------------------------------------------------------------------
(* DeepCopy.  A DraftConfig holds pointers to its BuilderVars and three    *)
(* maps; a write through a pointer or into a map is seen by every config   *)
(* that holds the same pointer or map.  shared lists the objects the       *)
(* second config has in common with the first.                             *)

\* The BuilderVar that Variables[i] of both configs points to.
SharedBuilderVar(i) == [part |-> "BuilderVar", index |-> i]

\* A map that both configs hold.
SharedMap(field) == [part |-> field, index |-> 0]

\* BuilderVar.DeepCopy: the fields the composite literal names; the
\* ExampleValues in a slice of their own.  ConditionalRef is not among them
\* and keeps its zero value.
BuilderVarDeepCopy(bv) ==
    [Name |-> bv.Name, Value |-> bv.Value, DefRef |-> bv.DefRef,
     DefValue |-> bv.DefValue, Versions |-> bv.Versions, Kind |-> bv.Kind,
     ConditionalRef |-> "",
     ExampleValues |-> [k \in 1..Len(bv.ExampleValues) |-> bv.ExampleValues[k]]]

\* DeepCopy storing the BuilderVar pointers of the original in the new slice.
DeepCopy_VariablesByPointer(cfg) ==
    [newConfig |-> [Versions |-> cfg.Versions,
                    Variables |-> cfg.Variables,
                    Validators |-> NoOverrides,
                    Transformers |-> NoOverrides,
                    FileNameOverrideMap |-> cfg.FileNameOverrideMap],
     shared |-> {SharedBuilderVar(i) : i \in 1..Len(cfg.Variables)}]

\* DraftConfig.DeepCopy: a new slice of copied BuilderVars and a new
\* FileNameOverrideMap with the entries of the original; Validators and
\* Transformers are not among the fields set and stay nil.  Returns the new
\* config and the objects it has in common with the original: none.
DeepCopy(cfg) ==
    [newConfig |-> [Versions |-> cfg.Versions,
                    Variables |-> [i \in 1..Len(cfg.Variables) |->
                                      BuilderVarDeepCopy(cfg.Variables[i])],
                    Validators |-> NoOverrides,
                    Transformers |-> NoOverrides,
                    FileNameOverrideMap |->
                        [k \in DOMAIN cfg.FileNameOverrideMap |->
                            cfg.FileNameOverrideMap[k]]],
     shared |-> {}]

\* SetFileNameOverride: FileNameOverrideMap[input] = override.
SetFileNameOverride(cfg, input, override) ==
    [cfg EXCEPT !.FileNameOverrideMap =
        [k \in DOMAIN cfg.FileNameOverrideMap \cup {input} |->
            IF k = input THEN override ELSE cfg.FileNameOverrideMap[k]]]

\* What a config that holds the objects in sh in common with another one
\* reads after a call left that other one as after.
SeenThrough(sh, after, cfg) ==
    [cfg EXCEPT
        !.Variables = [i \in 1..Len(cfg.Variables) |->
                          IF SharedBuilderVar(i) \in sh
                          THEN after.Variables[i] ELSE cfg.Variables[i]],
        !.FileNameOverrideMap = IF SharedMap("FileNameOverrideMap") \in sh
                                THEN after.FileNameOverrideMap
                                ELSE cfg.FileNameOverrideMap,
        !.Validators = IF SharedMap("Validators") \in sh
                       THEN after.Validators ELSE cfg.Validators,
        !.Transformers = IF SharedMap("Transformers") \in sh
                         THEN after.Transformers ELSE cfg.Transformers]

Sides == {"original", "copy"}

\* The config of a side.
Config(side) == IF side = "original" THEN d ELSE d2

\* A call on the config of a side left it as after.
Leaves(side, after) ==
    IF side = "original"
    THEN d' = after /\ d2' = SeenThrough(shared, after, d2)
    ELSE d2' = after /\ d' = SeenThrough(shared, after, d)

\* A call on the config of a side returned r.
Returns(side, r) ==
    IF side = "original"
    THEN ret' = r /\ UNCHANGED ret2
    ELSE ret2' = r /\ UNCHANGED ret

CopyValue == "12"
CopyOverride == "Dockerfile.dev"

\* A of kind "int" with a conditional reference and example values, set to
\* a value the built-in validator rejects or unset; B taking its default
\* from A; with and without overrides registered by the caller.
CopyConfigs ==
    {[Versions |-> ConfigRange,
      Variables |->
        << [Name |-> "A", Value |-> a, DefRef |-> "", DefValue |-> "12",
            Versions |-> ">=1.0.0", Kind |-> "int", ConditionalRef |-> "B",
            ExampleValues |-> <<"1", "2">>],
           [Name |-> "B", Value |-> "", DefRef |-> "A", DefValue |-> "",
            Versions |-> ">=1.0.0", Kind |-> "", ConditionalRef |-> "",
            ExampleValues |-> << >>] >>,
      Validators |-> v, Transformers |-> t, FileNameOverrideMap |-> f] :
        a \in {"", "abc"},
        v \in {NoOverrides, [k \in {"int"} |-> "acceptAll"]},
        t \in {NoOverrides, [k \in {""} |-> "quote"]},
        f \in {NoOverrides, [k \in {"Dockerfile"} |-> "Dockerfile.old"]}}

InitCopy ==
    /\ d \in CopyConfigs
    /\ ret = NoCall
    /\ NoSecondConfig
    /\ tmpl = NoTemplate
    /\ tree = << >>
    /\ pc = "Idle"
    /\ walk = 0
    /\ idx = 0
    /\ writes = << >>
    /\ genErr = NoErr

\* newConfig := d.DeepCopy()
CallDeepCopy ==
    /\ d2 = NoConfig
    /\ d2' = DeepCopy(d).newConfig
    /\ shared' = DeepCopy(d).shared
    /\ ret' = [NoCall EXCEPT !.op = "DeepCopy"]
    /\ UNCHANGED <<d, ret2>>
    /\ UNCHANGED renderVars

\* SetVariable(name, value) on the original or on the copy.
CopySetVariable ==
    /\ d2 # NoConfig
    /\ \E side \in Sides, name \in {"A", Undeclared} :
        Leaves(side, [Config(side) EXCEPT !.Variables =
                         SetVariable(Config(side).Variables, name, CopyValue)])
    /\ UNCHANGED <<ret, ret2, shared>>
    /\ UNCHANGED renderVars

\* ApplyDefaultVariables() on the original or on the copy.
CopyApplyDefaultVariables ==
    /\ d2 # NoConfig
    /\ \E side \in Sides :
        LET r == ApplyDefaultVariables(Config(side).Variables) IN
        /\ Leaves(side, [Config(side) EXCEPT !.Variables = r.variables])
        /\ Returns(side, [NoCall EXCEPT !.op = "ApplyDefaultVariables",
                                        !.err = r.err, !.at = r.at])
    /\ UNCHANGED shared
    /\ UNCHANGED renderVars

\* SetFileNameOverride(input, override) on the original or on the copy.
CopySetFileNameOverride ==
    /\ d2 # NoConfig
    /\ \E side \in Sides :
        Leaves(side, SetFileNameOverride(Config(side), "Dockerfile", CopyOverride))
    /\ UNCHANGED <<ret, ret2, shared>>
    /\ UNCHANGED renderVars

\* SetVariableValidator(kind, validator) on the original or on the copy.
CopySetVariableValidator ==
    /\ d2 # NoConfig
    /\ \E side \in Sides :
        Leaves(side, [Config(side) EXCEPT !.Validators =
                         SetOverride(Config(side).Validators, "int", "acceptAll")])
    /\ UNCHANGED <<ret, ret2, shared>>
    /\ UNCHANGED renderVars

\* SetVariableTransformer(kind, transformer) on the original or on the copy.
CopySetVariableTransformer ==
    /\ d2 # NoConfig
    /\ \E side \in Sides :
        Leaves(side, [Config(side) EXCEPT !.Transformers =
                         SetOverride(Config(side).Transformers, "", "quote")])
    /\ UNCHANGED <<ret, ret2, shared>>
    /\ UNCHANGED renderVars

NextCopy ==
    \/ CallDeepCopy
    \/ CopySetVariable
    \/ CopyApplyDefaultVariables
    \/ CopySetFileNameOverride
    \/ CopySetVariableValidator
    \/ CopySetVariableTransformer

SpecCopy == InitCopy /\ [][NextCopy]_vars

\* C12: once the copy exists, no call changes both configs: a SetVariable,
\* ApplyDefaultVariables, SetFileNameOverride, SetVariableValidator or
\* SetVariableTransformer on the copy leaves the Variables (their values,
\* their example values, the list itself) and the three maps of the
\* original as they were, and a call on the original leaves those of the
\* copy as they were; and DeepCopy itself leaves the original as it was.
C12_CopySharesNothing ==
    [][/\ d2 # NoConfig => (d' = d \/ d2' = d2)
       /\ d2 = NoConfig => d' = d]_vars

\* The copy was given a value for A, a new Variable, a file name override
\* and a validator; the original then had its defaults applied and a
\* transformer registered: each config shows its own calls only.
C12_Witness ==
    /\ d2 # NoConfig
    /\ Len(d2.Variables) = 3 /\ Len(d.Variables) = 2
    /\ d2.Variables[1].Value = CopyValue /\ d.Variables[1].Value = "abc"
    /\ d.Variables[1].ExampleValues = d2.Variables[1].ExampleValues
    /\ d.Variables[1].ExampleValues # << >>
    /\ "Dockerfile" \in DOMAIN d.FileNameOverrideMap
    /\ "Dockerfile" \in DOMAIN d2.FileNameOverrideMap
    /\ d2.FileNameOverrideMap["Dockerfile"] = CopyOverride
    /\ d.FileNameOverrideMap["Dockerfile"] # CopyOverride
    /\ "int" \in DOMAIN d2.Validators /\ "int" \notin DOMAIN d.Validators
    /\ "" \in DOMAIN d.Transformers /\ "" \notin DOMAIN d2.Transformers
    /\ ret.op = "ApplyDefaultVariables" /\ ret.err = NoErr
    /\ ~Unset(d, 2) /\ Unset(d2, 2)

\* GetVariableValue(name) gives the same on both configs: the same value
\* and the same kind of error.
SameRead(cfg, other, name) ==
    /\ GetVariableValue(cfg, name).val = GetVariableValue(other, name).val
    /\ GetVariableValue(cfg, name).err.kind = GetVariableValue(other, name).err.kind

\* C18 as stated: when DeepCopy returns, GetVariableValue gives the same on
\* the copy as on the original for every name, also when the original has
\* validators or transformers registered by the caller, and every field of
\* every Variable, the conditional reference among them, is equal in both.
C18_AsStated ==
    [][(d2 = NoConfig /\ d2' # NoConfig)
       => /\ \A name \in AccessNames : SameRead(d', d2', name)
          /\ d2'.Variables = d'.Variables]_vars

=============================================================================
